---- MODULE Spec2Model ----
(***************************************************************************)
(* nextask: task ranking (notion_tasks.get_todo_tasks), deadline           *)
(* annotation (plan.apply_meeting_deadlines) and next-task selection       *)
(* (plan.next_task).                                                       *)
(*                                                                         *)
(* Python str values are TLA+ strings; a character is a string of length 1 *)
(* taken with SubSeq.  Python None is the value None.  A task dict is a    *)
(* record; the optional dict keys deadline_days / deadline_event are       *)
(* listed in the field "keys" when present.  The field "id" stands for the *)
(* identity of the dict object (position of its page in the query result). *)
(***************************************************************************)
EXTENDS Integers, Sequences, FiniteSets, TLC

\* ------------------------------------------------------------------ bounds
MaxTasks == 2       \* pages returned by the task source
MaxEvents == 3      \* events returned by one calendar fetch
MaxCalls == 2       \* invocations of one operation in one run
MaxLines == 2       \* lines of a generated plan
MaxWords == 2       \* words of a phrase given to _keywords

\* ----------------------------------------------------------------- strings
None == "<None>"

Char(s, i) == SubSeq(s, i, i)

Range(f) == {f[i] : i \in DOMAIN f}

\* characters in code-point order, for str comparison
Ascii == " ()-0123456789:ABCDEFGHIJKLMNOPQRSTUVWXYZ_abcdefghijklmnopqrstuvwxyz"

Ord(c) == CHOOSE i \in 1..Len(Ascii) : Char(Ascii, i) = c

\* the lower-case letter of each upper-case letter
UpperToLower ==
    [A |-> "a", B |-> "b", C |-> "c", D |-> "d", E |-> "e", F |-> "f",
     G |-> "g", H |-> "h", I |-> "i", J |-> "j", K |-> "k", L |-> "l",
     M |-> "m", N |-> "n", O |-> "o", P |-> "p", Q |-> "q", R |-> "r",
     S |-> "s", T |-> "t", U |-> "u", V |-> "v", W |-> "w", X |-> "x",
     Y |-> "y", Z |-> "z"]

\* str.lower() on one character
LowerChar(c) == IF c \in DOMAIN UpperToLower THEN UpperToLower[c] ELSE c

RECURSIVE StrLower(_)
StrLower(s) ==
    IF s = "" THEN "" ELSE LowerChar(Char(s, 1)) \o StrLower(Tail(s))

RECURSIVE StrReplace(_, _, _)
\* str.replace(old, new) for a one-character old
StrReplace(s, old, new) ==
    IF s = "" THEN ""
    ELSE (IF Char(s, 1) = old THEN new ELSE Char(s, 1))
         \o StrReplace(Tail(s), old, new)

IsSpace(c) == c = " "

RECURSIVE SplitFrom(_, _, _)
\* str.split(): maximal runs of non-whitespace characters, in order
SplitFrom(s, cur, acc) ==
    IF s = "" THEN (IF cur = "" THEN acc ELSE Append(acc, cur))
    ELSE IF IsSpace(Char(s, 1))
         THEN SplitFrom(Tail(s), "", IF cur = "" THEN acc ELSE Append(acc, cur))
         ELSE SplitFrom(Tail(s), cur \o Char(s, 1), acc)

StrSplit(s) == SplitFrom(s, "", << >>)

RECURSIVE LStrip(_)
LStrip(s) == IF s # "" /\ IsSpace(Char(s, 1)) THEN LStrip(Tail(s)) ELSE s

RECURSIVE RStrip(_)
RStrip(s) ==
    IF s # "" /\ IsSpace(Char(s, Len(s)))
    THEN RStrip(SubSeq(s, 1, Len(s) - 1)) ELSE s

StrStrip(s) == LStrip(RStrip(s))

RECURSIVE StrLess(_, _)
\* a < b on str
StrLess(a, b) ==
    IF b = "" THEN FALSE
    ELSE IF a = "" THEN TRUE
    ELSE IF Char(a, 1) = Char(b, 1) THEN StrLess(Tail(a), Tail(b))
    ELSE Ord(Char(a, 1)) < Ord(Char(b, 1))

\* Python truthiness of an optional str
Truthy(s) == s # None /\ s # ""

\* ---------------------------------------------------------------- keywords
_STOP_WORDS ==
    {"and", "the", "for", "with", "from", "into", "work", "call",
     "meeting", "telecon"}

\* _keywords keeping only the words longer than three characters
_keywordsLonger(text) ==
    LET words == StrSplit(StrReplace(StrReplace(StrLower(text), "-", " "),
                                     "_", " "))
    IN  {w \in Range(words) : Len(w) > 3 /\ w \notin _STOP_WORDS}

_keywords(text) ==
    LET words == StrSplit(StrReplace(StrReplace(StrLower(text), "-", " "),
                                     "_", " "))
    IN  {w \in Range(words) : Len(w) >= 3 /\ w \notin _STOP_WORDS}

\* tuple comparison a < b for equal-length tuples of integers
RECURSIVE TupleLess(_, _)
TupleLess(a, b) ==
    IF a = << >> THEN FALSE
    ELSE IF a[1] # b[1] THEN a[1] < b[1]
    ELSE TupleLess(Tail(a), Tail(b))

\* datetime.date.today(), as a day number
Today == 10

\* a time of day, in seconds since midnight
TimeOf(h, m, sec) == (h * 60 + m) * 60 + sec

\* ------------------------------------------------------------------ inputs
SeqUpTo(S, n) == UNION {[1..k -> S] : k \in 0..n}

\* one page of the task database: the values of its Title, Project, Status,
\* Priority, Effort and Quick properties
Page(title, project, status, priority, effort, quick) ==
    [title |-> title, project |-> project, status |-> status,
     priority |-> priority, effort |-> effort, quick |-> quick]

RankPages ==
    {Page("Draft paper", "COSMOS-Web", "actionable", "High", "High", FALSE),
     Page("Review", "Euclid", None, "High", None, FALSE),
     Page("Refs", "COSMOS-Web", "In progress", "Low", "Low", FALSE),
     Page("Email", None, "actionable", "Medium", "Medium", TRUE),
     Page("Misc", "the call", "actionable", None, "Tiny", FALSE),
     Page("Triage", "", "actionable", "Urgent", "Low", FALSE),
     Page("Wait", "Euclid", "Pending", "High", "Low", FALSE)}

SelPages ==
    {Page("Draft paper", "COSMOS-Web", "actionable", "High", "High", FALSE),
     Page("Email", None, "actionable", "High", None, TRUE),
     Page("Review", "Euclid", "actionable", "Medium", "Medium", FALSE),
     Page("Refs", "COSMOS-Web", "In progress", "Low", "Low", FALSE),
     Page("Misc", "", "actionable", None, "Tiny", FALSE),
     Page("Notes", "Euclid", None, "Medium", None, FALSE),
     Page("Wait", "Euclid", "Pending", "High", "Low", FALSE),
     Page(" ", "Euclid", "actionable", "High", "Low", FALSE)}

\* one calendar event: summary, start (date as a day number, time of day and
\* whether the string carries a UTC offset) and the all_day flag
TimedEvent(summary, date, time, tz) ==
    [summary |-> summary, all_day |-> FALSE,
     start |-> [date |-> date, time |-> time, tz |-> tz]]

AllDayEvent(summary, date) ==
    [summary |-> summary, all_day |-> TRUE,
     start |-> [date |-> date, time |-> 0, tz |-> FALSE]]

UpcomingEvents ==
    {TimedEvent("COSMOS-Web telecon", Today + 3, TimeOf(15, 0, 0), TRUE),
     AllDayEvent("cosmos_web review", Today - 1),
     TimedEvent("Euclid meeting", Today + 1, TimeOf(9, 0, 0), FALSE),
     AllDayEvent("Euclid and COSMOS", Today + 3),
     AllDayEvent("COSMOS retreat", Today + 1000)}

SelUpcomingEvents ==
    {TimedEvent("Euclid meeting", Today + 1, TimeOf(9, 0, 0), FALSE),
     TimedEvent("COSMOS-Web telecon", Today + 3, TimeOf(15, 0, 0), TRUE)}

TodayEvents ==
    {TimedEvent("Standup", Today, TimeOf(10, 15, 0), TRUE),
     TimedEvent("Seminar", Today, TimeOf(10, 45, 0), FALSE),
     TimedEvent("Coffee", Today, TimeOf(10, 0, 0), FALSE),
     TimedEvent("Review", Today + 1, TimeOf(10, 10, 0), FALSE),
     AllDayEvent("Holiday", Today)}

NowTimes == {TimeOf(10, 0, 0), TimeOf(10, 0, 30)}

LeaveTimes ==
    {TimeOf(9, 30, 0), TimeOf(10, 0, 30), TimeOf(10, 40, 0), TimeOf(11, 30, 0)}

\* the start of an event as the calendar orders it
StartKey(ev) == <<ev.start.date, ev.start.time>>

\* what one fetch_events call can return from a calendar holding the events
\* S: at most n of them, each once, in start order (orderBy="startTime")
EventLists(S, n) ==
    {evs \in SeqUpTo(S, n) :
        \A i, j \in 1..Len(evs) :
            i < j => /\ evs[i] # evs[j]
                     /\ ~TupleLess(StartKey(evs[j]), StartKey(evs[i]))}

UpcomingLists == EventLists(UpcomingEvents, MaxEvents)

SelUpcomingLists == EventLists(SelUpcomingEvents, MaxEvents)

TodayLists == EventLists(TodayEvents, MaxEvents)

\* _keywords of every project and event summary of the inputs, computed once
InputTexts ==
    {""} \cup {p.project : p \in RankPages \cup SelPages}
         \cup {e.summary : e \in UpcomingEvents \cup SelUpcomingEvents}

KeywordTable == [text \in InputTexts |-> _keywords(text)]

Keywords(text) ==
    IF text \in InputTexts THEN KeywordTable[text] ELSE _keywords(text)

\* ------------------------------------------------------------------- ranks
PRIORITY_ORDER == [high |-> 0, medium |-> 1, low |-> 2]
EFFORT_ORDER == [high |-> 0, medium |-> 1, low |-> 2]

\* dict.get(key, default)
DictGet(d, key, default) == IF key \in DOMAIN d THEN d[key] ELSE default

RECURSIVE InsertUnstable(_, _, _)
\* InsertStable with the index put before the indices of equal key
InsertUnstable(perm, i, keys) ==
    IF perm = << >> THEN <<i>>
    ELSE IF ~TupleLess(keys[Head(perm)], keys[i])
         THEN <<i>> \o perm
         ELSE <<Head(perm)>> \o InsertUnstable(Tail(perm), i, keys)

RECURSIVE InsertStable(_, _, _)
\* insert index i into the sorted index list perm, after every index whose
\* key is not greater (list.sort is stable)
InsertStable(perm, i, keys) ==
    IF perm = << >> THEN <<i>>
    ELSE IF TupleLess(keys[i], keys[Head(perm)])
         THEN <<i>> \o perm
         ELSE <<Head(perm)>> \o InsertStable(Tail(perm), i, keys)

RECURSIVE SortPerm(_, _)
\* the order list.sort(key=...) gives to indices 1..n with the given keys
SortPerm(keys, n) ==
    IF n = 0 THEN << >>
    ELSE InsertStable(SortPerm(keys, n - 1), n, keys)

ListSort(seq, keys) ==
    LET perm == SortPerm(keys, Len(seq))
    IN  [i \in 1..Len(seq) |-> seq[perm[i]]]

\* ------------------------------------------------------------------- tasks
\* (get_select(...) or "").lower() or None
SelectLower(v) ==
    LET s == StrLower(IF Truthy(v) THEN v ELSE "")
    IN  IF s = "" THEN None ELSE s

MakeTask(page, i) ==
    [id             |-> i,
     text           |-> StrStrip(page.title),
     project        |-> page.project,
     status         |-> StrLower(IF Truthy(page.status) THEN page.status ELSE ""),
     priority       |-> SelectLower(page.priority),
     effort         |-> SelectLower(page.effort),
     quick          |-> page.quick,
     keys           |-> {},
     deadline_days  |-> 0,
     deadline_event |-> ""]

\* IsPending comparing with the capitalised name of the select option
IsPendingCapitalised(task) == task.status = "Pending"

IsPending(task) == task.status = "pending"

LoadKey(t) ==
    <<DictGet(PRIORITY_ORDER, t.priority, 9),
      DictGet(EFFORT_ORDER, t.effort, 9)>>

RECURSIVE LoadLoop(_, _, _)
\* the loop over pages: untitled pages are skipped, the others are appended
\* to pending or to actionable by status
LoadLoop(pages, i, acc) ==
    IF i > Len(pages) THEN acc
    ELSE LET task == MakeTask(pages[i], i)
         IN  IF task.text = "" THEN LoadLoop(pages, i + 1, acc)
             ELSE IF IsPending(task)
                  THEN LoadLoop(pages, i + 1,
                         [acc EXCEPT !.pending = Append(@, task)])
                  ELSE LoadLoop(pages, i + 1,
                         [acc EXCEPT !.actionable = Append(@, task)])

get_todo_tasks(pages) ==
    LET split == LoadLoop(pages, 1, [actionable |-> << >>, pending |-> << >>])
        act == split.actionable
    IN  [actionable |-> ListSort(act, [i \in 1..Len(act) |-> LoadKey(act[i])]),
         pending    |-> split.pending]

\* -------------------------------------------------------- deadline matching
\* date.fromisoformat(start) / datetime.fromisoformat(start).date(): the
\* calendar date written in the start string
EventDate(ev) == ev.start.date

RECURSIVE EventEntriesKeepPast(_, _)
\* EventEntries without the days_away < 0 test
EventEntriesKeepPast(upcoming_events, today) ==
    IF upcoming_events = << >> THEN << >>
    ELSE LET ev == Head(upcoming_events)
         IN  <<[days_away |-> EventDate(ev) - today,
                keywords  |-> Keywords(ev.summary),
                summary   |-> ev.summary]>>
             \o EventEntriesKeepPast(Tail(upcoming_events), today)

RECURSIVE EventEntries(_, _)
\* (days_away, event_keywords, event_summary) of the events not in the past
EventEntries(upcoming_events, today) ==
    IF upcoming_events = << >> THEN << >>
    ELSE LET ev == Head(upcoming_events)
             days_away == EventDate(ev) - today
             rest == EventEntries(Tail(upcoming_events), today)
         IN  IF days_away < 0 THEN rest
             ELSE <<[days_away |-> days_away,
                     keywords  |-> Keywords(ev.summary),
                     summary   |-> ev.summary]>> \o rest

RECURSIVE Soonest(_, _, _)
\* the inner loop: soonest is None or <<soonest_days, soonest_name>>
Soonest(proj_keywords, entries, soonest) ==
    IF entries = << >> THEN soonest
    ELSE LET e == Head(entries)
         IN  IF proj_keywords \cap e.keywords # {}
                /\ (soonest = << >> \/ e.days_away < soonest[1])
             THEN Soonest(proj_keywords, Tail(entries),
                          <<e.days_away, e.summary>>)
             ELSE Soonest(proj_keywords, Tail(entries), soonest)

\* SetDeadline without the assignment of deadline_event
SetDeadlineDaysOnly(task, soonest) ==
    [task EXCEPT !.keys = @ \cup {"deadline_days"},
                 !.deadline_days = soonest[1]]

SetDeadline(task, soonest) ==
    [task EXCEPT !.keys = @ \cup {"deadline_days", "deadline_event"},
                 !.deadline_days = soonest[1],
                 !.deadline_event = soonest[2]]

AnnotateTask(task, entries) ==
    LET project == IF Truthy(task.project) THEN task.project ELSE ""
        proj_keywords == Keywords(project)
        soonest == Soonest(proj_keywords, entries, << >>)
    IN  IF proj_keywords = {} THEN task
        ELSE IF soonest # << >> THEN SetDeadline(task, soonest)
        ELSE task

\* t.get("deadline_days", 999)
DeadlineRank(t) ==
    IF "deadline_days" \in t.keys THEN t.deadline_days ELSE 999

\* SortKey with the deadline ahead of the priority
SortKeyDeadlineFirst(t) ==
    <<DeadlineRank(t),
      DictGet(PRIORITY_ORDER, t.priority, 9),
      DictGet(EFFORT_ORDER, t.effort, 9)>>

SortKey(t) ==
    <<DictGet(PRIORITY_ORDER, t.priority, 9),
      DeadlineRank(t),
      DictGet(EFFORT_ORDER, t.effort, 9)>>

apply_meeting_deadlines(tasks, upcoming_events, today) ==
    LET entries == EventEntries(upcoming_events, today)
        annotated == [i \in 1..Len(tasks.actionable) |->
                        AnnotateTask(tasks.actionable[i], entries)]
    IN  [actionable |-> ListSort(annotated,
                          [i \in 1..Len(annotated) |-> SortKey(annotated[i])]),
         pending    |-> tasks.pending]

\* --------------------------------------------------------------- next task
\* Minimum available minutes required to suggest a task of each effort level
EFFORT_MIN_MINUTES == [high |-> 90, medium |-> 45, low |-> 1]

\* int(x / y): the quotient truncated toward zero
TruncDiv(x, y) == IF x >= 0 THEN x \div y ELSE -((-x) \div y)

\* start_dt.replace(tzinfo=None): the wall-clock date and time of the start
\* string, whatever its UTC offset
StartLocal(ev) == [date |-> ev.start.date, time |-> ev.start.time]

\* IsUpcoming without the comparison of the date with today
IsUpcomingAnyDate(ev, today, now_time) ==
    /\ ~ev.all_day
    /\ ev.start.time > now_time

\* the test that puts an event into the list of upcoming meetings
IsUpcoming(ev, today, now_time) ==
    /\ ~ev.all_day
    /\ StartLocal(ev).date = today
    /\ StartLocal(ev).time > now_time

\* (time, summary) tuple comparison a < b
MeetingLess(a, b) ==
    \/ a[1] < b[1]
    \/ a[1] = b[1] /\ StrLess(a[2], b[2])

RECURSIVE InsertMeeting(_, _)
InsertMeeting(sorted, m) ==
    IF sorted = << >> THEN <<m>>
    ELSE IF MeetingLess(m, Head(sorted)) THEN <<m>> \o sorted
    ELSE <<Head(sorted)>> \o InsertMeeting(Tail(sorted), m)

RECURSIVE Upcoming(_, _, _)
\* the sorted list of (start time, summary) of today's later timed events
Upcoming(events, today, now_time) ==
    IF events = << >> THEN << >>
    ELSE LET ev == events[Len(events)]
             before == Upcoming(SubSeq(events, 1, Len(events) - 1),
                                today, now_time)
         IN  IF IsUpcoming(ev, today, now_time)
             THEN InsertMeeting(before, <<StartLocal(ev).time, ev.summary>>)
             ELSE before

EndOfDay(leave_time) == [kind |-> "end of day", name |-> "", at |-> leave_time]

Meeting(m) == [kind |-> "meeting", name |-> m[2], at |-> m[1]]

\* the deadline of the session and the label printed for it
Deadline(upcoming, leave_time) ==
    IF upcoming # << >>
    THEN IF Head(upcoming)[1] <= leave_time
         THEN [deadline |-> Head(upcoming)[1], label |-> Meeting(Head(upcoming))]
         ELSE [deadline |-> leave_time, label |-> EndOfDay(leave_time)]
    ELSE [deadline |-> leave_time, label |-> EndOfDay(leave_time)]

\* MinNeeded without the quick flag
MinNeededByEffort(task) ==
    DictGet([high |-> 90, medium |-> 45, low |-> 1],
            IF Truthy(task.effort) THEN task.effort ELSE "low", 1)

MinNeeded(task) ==
    IF task.quick THEN 15
    ELSE DictGet(EFFORT_MIN_MINUTES,
                 IF Truthy(task.effort) THEN task.effort ELSE "low", 1)

Fits(task, available_mins) == available_mins >= MinNeeded(task)

RECURSIVE Scan(_, _, _, _)
\* the loop over the actionable tasks: the ids examined and the first task
\* that fits, if any
Scan(actionable, i, available_mins, examined) ==
    IF i > Len(actionable)
    THEN [examined |-> examined, found |-> FALSE, suggestion |-> None]
    ELSE IF Fits(actionable[i], available_mins)
         THEN [examined |-> Append(examined, actionable[i].id),
               found |-> TRUE, suggestion |-> actionable[i]]
         ELSE Scan(actionable, i + 1, available_mins,
                   Append(examined, actionable[i].id))

\* NoTime with a strict comparison
NoTimeStrict(available_mins) == available_mins < 0

NoTime(available_mins) == available_mins <= 0

\* what the line "After that: ..." names
After(upcoming, leave_time) ==
    IF upcoming # << >> THEN Meeting(Head(upcoming)) ELSE EndOfDay(leave_time)

NoOutput ==
    [available_mins |-> 0, deadline |-> 0, deadline_label |-> EndOfDay(0),
     message |-> "", examined |-> << >>, found |-> FALSE,
     suggestion |-> None, after |-> EndOfDay(0)]

next_task(tasks, leave_time, events, today, now_time) ==
    LET upcoming == Upcoming(events, today, now_time)
        dl == Deadline(upcoming, leave_time)
        available_mins == TruncDiv(dl.deadline - now_time, 60)
        header == [NoOutput EXCEPT !.available_mins = available_mins,
                                   !.deadline = dl.deadline,
                                   !.deadline_label = dl.label]
        scan == Scan(tasks.actionable, 1, available_mins, << >>)
    IN  IF NoTime(available_mins)
        THEN [header EXCEPT
                !.message = "No time available before your next commitment."]
        ELSE IF ~scan.found
        THEN [header EXCEPT
                !.message = "No tasks fit the available time window.",
                !.examined = scan.examined]
        ELSE [header EXCEPT
                !.message = "Suggested next task:",
                !.examined = scan.examined,
                !.found = TRUE,
                !.suggestion = scan.suggestion,
                !.after = After(upcoming, leave_time)]

\* ------------------------------------------------------------ project tags
\* the separator of a scheduled-task line, U+2014, written ~ in this module
EmDash == "~"

\* a in b on str
StrIn(a, b) ==
    \E i \in 1..(Len(b) - Len(a) + 1) : SubSeq(b, i, i + Len(a) - 1) = a

\* str.startswith
StartsWith(s, prefix) ==
    Len(prefix) <= Len(s) /\ SubSeq(s, 1, Len(prefix)) = prefix

RECURSIVE FindFrom(_, _, _)
\* the position of the first occurrence of sub in s at or after i, 0 if none
FindFrom(s, sub, i) ==
    IF i + Len(sub) - 1 > Len(s) THEN 0
    ELSE IF SubSeq(s, i, i + Len(sub) - 1) = sub THEN i
    ELSE FindFrom(s, sub, i + 1)

\* str.find(sub) + 1: the position of the first occurrence, 0 if none
StrFind(s, sub) == FindFrom(s, sub, 1)

\* s.split(sep, 1)[0] and s.split(sep)[0]
SplitHead(s, sep) ==
    IF StrFind(s, sep) = 0 THEN s ELSE SubSeq(s, 1, StrFind(s, sep) - 1)

\* s.split(sep, 1)[1], for an s that holds sep
SplitRest(s, sep) == SubSeq(s, StrFind(s, sep) + Len(sep), Len(s))

RECURSIVE SplitLines(_)
\* str.splitlines()
SplitLines(s) ==
    IF s = "" THEN << >>
    ELSE IF StrFind(s, "\n") = 0 THEN <<s>>
    ELSE <<SplitHead(s, "\n")>> \o SplitLines(SplitRest(s, "\n"))

RECURSIVE JoinLines(_)
\* "\n".join(lines)
JoinLines(lines) ==
    IF lines = << >> THEN ""
    ELSE IF Len(lines) = 1 THEN lines[1]
    ELSE lines[1] \o "\n" \o JoinLines(Tail(lines))

\* DictSet keeping the value a key already has
DictSetKeepFirst(d, key, value) ==
    IF \E i \in 1..Len(d) : d[i].key = key THEN d
    ELSE Append(d, [key |-> key, value |-> value])

\* a dict as the list of its items in insertion order; d[key] = value
DictSet(d, key, value) ==
    IF \E i \in 1..Len(d) : d[i].key = key
    THEN [i \in 1..Len(d) |->
            IF d[i].key = key THEN [key |-> key, value |-> value] ELSE d[i]]
    ELSE Append(d, [key |-> key, value |-> value])

\* f"[{task['project']}]"
TagOf(task) == "[" \o task.project \o "]"

\* GivesEntry for every task, with or without a project
GivesEntryAlways(task) == TRUE

\* if task.get("project")
GivesEntry(task) == Truthy(task.project)

RECURSIVE LookupLoop(_, _)
LookupLoop(task_list, lookup) ==
    IF task_list = << >> THEN lookup
    ELSE LET task == Head(task_list)
         IN  IF GivesEntry(task)
             THEN LookupLoop(Tail(task_list),
                             DictSet(lookup, StrLower(task.text), TagOf(task)))
             ELSE LookupLoop(Tail(task_list), lookup)

build_tag_lookup(task_dict) ==
    LookupLoop(task_dict.actionable \o task_dict.pending, << >>)

\* the test of a scheduled-task line
IsTaskLine(line) ==
    StartsWith(StrStrip(line), "- [ ]") /\ StrIn(EmDash, line)

\* the test of one lookup item against the cleaned description
TagMatches(task_text, clean) == StrIn(task_text, clean) \/ StrIn(clean, task_text)

\* FirstMatch scanning to the end: the position of the last matching item
LastMatch(tag_lookup, clean) ==
    IF \E i \in 1..Len(tag_lookup) : TagMatches(tag_lookup[i].key, clean)
    THEN CHOOSE i \in 1..Len(tag_lookup) :
            /\ TagMatches(tag_lookup[i].key, clean)
            /\ \A j \in (i + 1)..Len(tag_lookup) :
                    ~TagMatches(tag_lookup[j].key, clean)
    ELSE 0

\* the position of the item the loop over tag_lookup.items() breaks at, or 0
FirstMatch(tag_lookup, clean) ==
    IF \E i \in 1..Len(tag_lookup) : TagMatches(tag_lookup[i].key, clean)
    THEN CHOOSE i \in 1..Len(tag_lookup) :
            /\ TagMatches(tag_lookup[i].key, clean)
            /\ \A j \in 1..(i - 1) : ~TagMatches(tag_lookup[j].key, clean)
    ELSE 0

\* after_lower.split("(priority:")[0].strip()
CleanOf(after_dash) == StrStrip(SplitHead(StrLower(after_dash), "(priority:"))

\* f"{prefix}— {tag} {rest.strip()}"
Retagged(line, tag) ==
    SplitHead(line, EmDash) \o EmDash \o " " \o tag \o " "
        \o StrStrip(SplitRest(line, EmDash))

\* the body of the loop over the lines
ReinsertLine(line, tag_lookup) ==
    IF IsTaskLine(line)
    THEN LET after_dash == StrStrip(SplitRest(line, EmDash))
         IN  IF ~StartsWith(after_dash, "[")
             THEN LET m == FirstMatch(tag_lookup, CleanOf(after_dash))
                  IN  IF m # 0 THEN Retagged(line, tag_lookup[m].value)
                      ELSE line
             ELSE line
    ELSE line

reinsert_project_tags(plan_text, tag_lookup) ==
    IF tag_lookup = << >> THEN plan_text
    ELSE LET lines == SplitLines(plan_text)
         IN  JoinLines([i \in 1..Len(lines) |->
                          ReinsertLine(lines[i], tag_lookup)])

\* -------------------------------------------------------------------- main
\* the variables main requires: the first two in every mode, the third in
\* the modes week and day
RequiredEnviron == {"NOTION_TOKEN", "NOTION_DATABASE_ID", "GEMINI_API_KEY"}

Environs ==
    {RequiredEnviron, RequiredEnviron \ {"GEMINI_API_KEY"},
     RequiredEnviron \ {"NOTION_TOKEN"}}

\* values of --start-date: absent, a Monday, a Wednesday, the 31st of February
StartDates == {None, "170225", "190225", "310225"}

DigitValue ==
    [c \in {"0", "1", "2", "3", "4", "5", "6", "7", "8", "9"} |->
        CASE c = "0" -> 0 [] c = "1" -> 1 [] c = "2" -> 2 [] c = "3" -> 3
          [] c = "4" -> 4 [] c = "5" -> 5 [] c = "6" -> 6 [] c = "7" -> 7
          [] c = "8" -> 8 [] c = "9" -> 9]

\* the two digits of s at positions i and i + 1 as a number
TwoDigits(s, i) ==
    10 * DigitValue[SubSeq(s, i, i)] + DigitValue[SubSeq(s, i + 1, i + 1)]

IsLeap(year) == year % 4 = 0 /\ (year % 100 # 0 \/ year % 400 = 0)

DaysInMonth(year, month) ==
    IF month = 2 THEN (IF IsLeap(year) THEN 29 ELSE 28)
    ELSE IF month \in {4, 6, 9, 11} THEN 30 ELSE 31

\* datetime.datetime.strptime(s, "%d%m%y").date() for a six-character s:
\* a date, or ok = FALSE for the ValueError
StrpTime(s) ==
    IF /\ Len(s) = 6
       /\ \A i \in 1..6 : SubSeq(s, i, i) \in DOMAIN DigitValue
    THEN LET day   == TwoDigits(s, 1)
             month == TwoDigits(s, 3)
             yy    == TwoDigits(s, 5)
             year  == IF yy <= 68 THEN 2000 + yy ELSE 1900 + yy
         IN  IF /\ month \in 1..12
                /\ day >= 1
                /\ day <= DaysInMonth(year, month)
             THEN [ok |-> TRUE, year |-> year, month |-> month, day |-> day]
             ELSE [ok |-> FALSE, year |-> 0, month |-> 0, day |-> 0]
    ELSE [ok |-> FALSE, year |-> 0, month |-> 0, day |-> 0]

RECURSIVE DaysBeforeMonth(_, _)
DaysBeforeMonth(year, month) ==
    IF month = 1 THEN 0
    ELSE DaysBeforeMonth(year, month - 1) + DaysInMonth(year, month - 1)

\* date.toordinal()
ToOrdinal(d) ==
    LET y == d.year - 1
    IN  y * 365 + (y \div 4) - (y \div 100) + (y \div 400)
          + DaysBeforeMonth(d.year, d.month) + d.day

\* date.weekday(): Monday is 0
Weekday(d) == (ToOrdinal(d) + 6) % 7

\* monday - datetime.timedelta(days=monday.weekday()), as an ordinal
SnapToMonday(d) == ToOrdinal(d) - Weekday(d)

\* the parameters of the two event fetches main calls with an argument
get_events_this_week_params == << >>

get_events_today_params == <<"date">>

\* a call with positional arguments binds when the function has a parameter
\* for each of them; otherwise it raises TypeError
Binds(params, args) == Len(args) <= Len(params)

\* ----------------------------------------------------------- plan inputs
\* notion pages for the plan modes: two tasks whose texts differ in case
\* only, a task without a project and a pending task whose text holds
\* another task's text
TagPages ==
    {Page("Draft", "CW", "actionable", "High", "High", FALSE),
     Page("draft", "Eu", "actionable", "Low", "Low", FALSE),
     Page("Mail", None, "actionable", "Medium", None, FALSE),
     Page("Mail all", "Eu", "Pending", "High", "Low", FALSE)}

\* lines of a generated plan; 9 stands for the time range
PlanLines ==
    {"",
     "- [ ] 9 ~ Draft (priority: high)",
     "- [ ] 9 ~ [CW] Draft",
     "- [ ] 9 ~ Mail (priority: medium)",
     "  - [ ] 9 ~  Mail all draft ",
     "Draft ~ Mail"}

\* response.text: up to MaxLines lines, each ended by a line feed but
\* possibly the last
PlanTexts ==
    {JoinLines(ls) : ls \in SeqUpTo(PlanLines, MaxLines)}
        \cup {JoinLines(ls) \o "\n" : ls \in SeqUpTo(PlanLines, MaxLines)}

\* words of a phrase given to _keywords
Words == {"The", "Web", "ab", "COSMOS"}

Separators == {" ", "-", "_"}

\* up to MaxWords words, each with the separator written before it and
\* whether the variant writes it in lowercase
WordLists == SeqUpTo(Words \X Separators \X BOOLEAN, MaxWords)

RECURSIVE PhraseOf(_)
PhraseOf(ws) ==
    IF ws = << >> THEN ""
    ELSE PhraseOf(SubSeq(ws, 1, Len(ws) - 1))
           \o ws[Len(ws)][2] \o ws[Len(ws)][1]

RECURSIVE VariantOf(_)
\* the same words with a space for every separator and some in lowercase
VariantOf(ws) ==
    IF ws = << >> THEN ""
    ELSE VariantOf(SubSeq(ws, 1, Len(ws) - 1)) \o " "
           \o (IF ws[Len(ws)][3] THEN StrLower(ws[Len(ws)][1])
               ELSE ws[Len(ws)][1])

\* ------------------------------------------------------------------- state
VARIABLES
    pc,               \* the position of the run
    pages,            \* the result of query_database
    tasks,            \* {"actionable": [...], "pending": [...]}
    calls,            \* invocations of apply_meeting_deadlines so far
    entered,          \* tasks["actionable"] when the last invocation began
    upcoming_events,  \* the events given to the last invocation
    now_time,         \* datetime.now().time() in next_task
    leave_time,       \* the parsed --leave
    events,           \* get_events_today() or get_events_this_week()
    out,              \* what next_task printed
    plan_in,          \* the text given to the last reinsert_project_tags
    tag_lookup,       \* the lookup given to it
    plan,             \* the plan text
    passes,           \* invocations of reinsert_project_tags so far
    environ,          \* the names set in os.environ
    mode,             \* args.mode
    start_date,       \* args.start_date
    monday,           \* the Monday of the target week, an ordinal, or None
    written,          \* the text written to the plan file, or None
    phrase,           \* a text given to _keywords
    variant,          \* the same words in another case, separated by spaces
    kw_phrase,        \* _keywords(phrase)
    kw_variant        \* _keywords(variant)

rankvars ==
    <<calls, entered, upcoming_events, now_time, leave_time, events, out>>

tagvars == <<plan_in, tag_lookup, plan, passes>>

mainvars == <<environ, mode, start_date, monday, written>>

kwvars == <<phrase, variant, kw_phrase, kw_variant>>

vars == <<pc, pages, tasks, rankvars, tagvars, mainvars, kwvars>>

\* the part of the state an operation of another mode never touches
IdleTags ==
    /\ plan_in = ""
    /\ tag_lookup = << >>
    /\ plan = ""
    /\ passes = 0

IdleMain ==
    /\ environ = RequiredEnviron
    /\ mode = "next"
    /\ start_date = None
    /\ monday = None
    /\ written = None

IdleKeywords ==
    /\ phrase = ""
    /\ variant = ""
    /\ kw_phrase = {}
    /\ kw_variant = {}

IdleRank ==
    /\ tasks = [actionable |-> << >>, pending |-> << >>]
    /\ calls = 0
    /\ entered = << >>
    /\ upcoming_events = << >>
    /\ now_time = 0
    /\ leave_time = 0
    /\ events = << >>
    /\ out = NoOutput

InitWith(PageDomain) ==
    /\ pc = "start"
    /\ pages \in SeqUpTo(PageDomain, MaxTasks)
    /\ IdleRank
    /\ IdleTags
    /\ IdleMain
    /\ IdleKeywords

Init == InitWith(RankPages)

InitSel == InitWith(SelPages)

GetTodoTasks ==
    /\ pc = "start"
    /\ tasks' = get_todo_tasks(pages)
    /\ pc' = "loaded"
    /\ UNCHANGED <<pages, rankvars, tagvars, mainvars, kwvars>>

ApplyMeetingDeadlines(evs) ==
    /\ pc \in {"loaded", "annotated"}
    /\ calls < MaxCalls
    /\ entered' = tasks.actionable
    /\ upcoming_events' = evs
    /\ tasks' = apply_meeting_deadlines(tasks, evs, Today)
    /\ calls' = calls + 1
    /\ pc' = "annotated"
    /\ UNCHANGED <<pages, now_time, leave_time, events, out>>
    /\ UNCHANGED <<tagvars, mainvars, kwvars>>

NextTask(now, leave, evs) ==
    /\ pc = "annotated"
    /\ now_time' = now
    /\ leave_time' = leave
    /\ events' = evs
    /\ out' = next_task(tasks, leave, evs, Today, now)
    /\ pc' = "done"
    /\ UNCHANGED <<pages, tasks, calls, entered, upcoming_events>>
    /\ UNCHANGED <<tagvars, mainvars, kwvars>>

\* the ranker and the annotator, invoked up to MaxCalls times
Next ==
    \/ GetTodoTasks
    \/ \E evs \in UpcomingLists : ApplyMeetingDeadlines(evs)

Spec == Init /\ [][Next]_vars

\* "next" mode of main: tasks are fetched, annotated once, then next_task runs
NextSel ==
    \/ GetTodoTasks
    \/ \E evs \in SelUpcomingLists : calls = 0 /\ ApplyMeetingDeadlines(evs)
    \/ \E now \in NowTimes, leave \in LeaveTimes,
          evs \in TodayLists : NextTask(now, leave, evs)

SpecNext == InitSel /\ [][NextSel]_vars

\* plan = reinsert_project_tags(plan, build_tag_lookup(tasks))
Reconcile(response_text) ==
    /\ plan_in' = response_text
    /\ tag_lookup' = build_tag_lookup(tasks)
    /\ plan' = reinsert_project_tags(response_text, tag_lookup')
    /\ passes' = passes + 1

\* the reconciler on a generated text and the tasks of get_todo_tasks
ReinsertProjectTags(response_text) ==
    /\ pc = "loaded"
    /\ Reconcile(response_text)
    /\ pc' = "tagged"
    /\ UNCHANGED <<pages, tasks, rankvars, mainvars, kwvars>>

\* the reconciler on its own output
ReinsertAgain ==
    /\ pc = "tagged"
    /\ passes < MaxCalls
    /\ Reconcile(plan)
    /\ UNCHANGED <<pc, pages, tasks, rankvars, mainvars, kwvars>>

InitTags == InitWith(TagPages)

\* the reconciler on a generated text
NextTags ==
    \/ GetTodoTasks
    \/ \E response_text \in PlanTexts : ReinsertProjectTags(response_text)

SpecTags == InitTags /\ [][NextTags]_vars

\* the reconciler on a generated text and then on what it returned, up to
\* MaxCalls times in all
NextAgain ==
    \/ GetTodoTasks
    \/ \E response_text \in PlanTexts : ReinsertProjectTags(response_text)
    \/ ReinsertAgain

SpecAgain == InitTags /\ [][NextAgain]_vars

\* the checks of os.environ at the top of main
CheckEnviron ==
    /\ pc = "main"
    /\ pc' = IF /\ {"NOTION_TOKEN", "NOTION_DATABASE_ID"} \subseteq environ
                /\ (mode # "next" => "GEMINI_API_KEY" \in environ)
             THEN "start" ELSE "exit"
    /\ UNCHANGED <<pages, tasks, rankvars, tagvars, mainvars, kwvars>>

\* the fetch of the events the plan is made for: in week mode after
\* --start-date is parsed and snapped to its Monday, get_events_this_week is
\* called with monday; in day mode get_events_today with the target date
GetEvents(evs) ==
    /\ pc = "annotated"
    /\ IF mode = "week"
       THEN IF Truthy(start_date) /\ ~StrpTime(start_date).ok
            THEN /\ pc' = "exit"
                 /\ UNCHANGED <<monday, events>>
            ELSE /\ monday' = IF Truthy(start_date)
                              THEN SnapToMonday(StrpTime(start_date))
                              ELSE None
                 /\ IF Binds(get_events_this_week_params, <<monday'>>)
                    THEN events' = evs /\ pc' = "events"
                    ELSE pc' = "TypeError" /\ UNCHANGED events
       ELSE /\ Binds(get_events_today_params, <<Today>>)
            /\ events' = evs
            /\ pc' = "events"
            /\ UNCHANGED monday
    /\ UNCHANGED <<pages, tasks, calls, entered, upcoming_events, now_time,
                   leave_time, out, tagvars, environ, mode, start_date,
                   written, kwvars>>

\* generate_weekly_plan and generate_daily_plan: the response of the
\* generative service, reconciled with the tasks
GeneratePlan(response_text) ==
    /\ pc = "events"
    /\ Reconcile(response_text)
    /\ pc' = "generated"
    /\ UNCHANGED <<pages, tasks, rankvars, mainvars, kwvars>>

\* Path(out_path).write_text(plan)
WritePlan ==
    /\ pc = "generated"
    /\ written' = plan
    /\ pc' = "written"
    /\ UNCHANGED <<pages, tasks, rankvars, tagvars, environ, mode,
                   start_date, monday, kwvars>>

InitMain ==
    /\ pc = "main"
    /\ pages \in SeqUpTo(TagPages, MaxTasks)
    /\ IdleRank
    /\ IdleTags
    /\ IdleKeywords
    /\ environ \in Environs
    /\ mode \in {"week", "day"}
    /\ start_date \in IF mode = "week" THEN StartDates ELSE {None}
    /\ monday = None
    /\ written = None

\* the modes week and day of main
NextMain ==
    \/ CheckEnviron
    \/ GetTodoTasks
    \/ \E evs \in SelUpcomingLists : calls = 0 /\ ApplyMeetingDeadlines(evs)
    \/ \E evs \in SelUpcomingLists : GetEvents(evs)
    \/ \E response_text \in PlanLines : GeneratePlan(response_text)
    \/ WritePlan

SpecMain == InitMain /\ [][NextMain]_vars

\* _keywords on a phrase and on its variant
ExtractKeywords ==
    /\ pc = "phrases"
    /\ kw_phrase' = _keywords(phrase)
    /\ kw_variant' = _keywords(variant)
    /\ pc' = "keywords"
    /\ UNCHANGED <<pages, tasks, rankvars, tagvars, mainvars, phrase, variant>>

InitKeywords ==
    /\ pc = "phrases"
    /\ pages = << >>
    /\ IdleRank
    /\ IdleTags
    /\ IdleMain
    /\ \E ws \in WordLists : phrase = PhraseOf(ws) /\ variant = VariantOf(ws)
    /\ kw_phrase = {}
    /\ kw_variant = {}

NextKeywords == ExtractKeywords

SpecKeywords == InitKeywords /\ [][NextKeywords]_vars

\* ================================================================== claims
Actionable == tasks.actionable

Ids(seq) == {seq[i].id : i \in 1..Len(seq)}

PosIn(seq, id) == CHOOSE i \in 1..Len(seq) : seq[i].id = id

Ranked == pc \in {"loaded", "annotated"}

DefinedLevel(v) == v \in {"high", "medium", "low"}

\* level a ranks strictly before level b (high, then medium, then low)
LevelBefore(a, b) ==
    \/ a = "high" /\ b \in {"medium", "low"}
    \/ a = "medium" /\ b = "low"

HasDeadline(t) == "deadline_days" \in t.keys

\* ------------------------------------------------------------------------
\* C1  Priority dominance: after get_todo_tasks and after every
\* apply_meeting_deadlines, of two actionable tasks with distinct defined
\* priorities the one of the higher priority stands first, whatever their
\* efforts and deadline_days.
PriorityDominance ==
    Ranked =>
        \A i, j \in 1..Len(Actionable) :
            LevelBefore(Actionable[i].priority, Actionable[j].priority)
                => i < j

\* a low-priority task with a deadline and a defined effort stands behind a
\* high-priority task that has neither
PriorityDominanceWitness ==
    /\ pc = "annotated"
    /\ \E i, j \in 1..Len(Actionable) :
        /\ i < j
        /\ Actionable[i].priority = "high"
        /\ Actionable[j].priority = "low"
        /\ ~HasDeadline(Actionable[i]) /\ HasDeadline(Actionable[j])
        /\ ~DefinedLevel(Actionable[i].effort)
        /\ DefinedLevel(Actionable[j].effort)

\* ------------------------------------------------------------------------
\* C2  Stability and idempotence: tasks with equal ranking keys keep the
\* order they had in the ranker's input; ranking the ranker's output again
\* returns it unchanged; and apply_meeting_deadlines run a second time with
\* the same events and the same today changes neither order nor annotations.
StableIdempotent ==
    /\ pc = "loaded" =>
        /\ \A i, j \in 1..Len(Actionable) :
            (i < j /\ LoadKey(Actionable[i]) = LoadKey(Actionable[j]))
                => Actionable[i].id < Actionable[j].id
        /\ ListSort(Actionable,
                    [i \in 1..Len(Actionable) |-> LoadKey(Actionable[i])])
             = Actionable
    /\ pc = "annotated" =>
        /\ \A i, j \in 1..Len(Actionable) :
            (i < j /\ SortKey(Actionable[i]) = SortKey(Actionable[j]))
                => PosIn(entered, Actionable[i].id)
                     < PosIn(entered, Actionable[j].id)
        /\ ListSort(Actionable,
                    [i \in 1..Len(Actionable) |-> SortKey(Actionable[i])])
             = Actionable
        /\ apply_meeting_deadlines(tasks, upcoming_events, Today) = tasks

\* two tasks tie on the full key after an invocation that attached a deadline
\* to both
StableIdempotentWitness ==
    /\ pc = "annotated"
    /\ \E i, j \in 1..Len(Actionable) :
        /\ i < j
        /\ SortKey(Actionable[i]) = SortKey(Actionable[j])
        /\ HasDeadline(Actionable[i])
        /\ entered[PosIn(entered, Actionable[i].id)].keys = {}

\* ------------------------------------------------------------------------
\* C3  Pending exclusion: a task of status "pending" is never in the
\* actionable sequence, is never given deadline fields nor reordered by the
\* annotator, and is never examined or returned by next_task; every other
\* task is in the actionable sequence.
HasTitle(page) == \E k \in 1..Len(page.title) : Char(page.title, k) # " "

PendingExclusion ==
    pc # "start" =>
        /\ \A t \in Range(Actionable) : t.status # "pending"
        /\ \A t \in Range(tasks.pending) : t.status = "pending" /\ t.keys = {}
        /\ \A i, j \in 1..Len(tasks.pending) :
            i < j => tasks.pending[i].id < tasks.pending[j].id
        /\ \A i \in 1..Len(pages) :
            HasTitle(pages[i]) => i \in Ids(Actionable) \cup Ids(tasks.pending)
        /\ Ids(Actionable) \cap Ids(tasks.pending) = {}
        /\ Range(out.examined) \subseteq Ids(Actionable)
        /\ out.found => out.suggestion \in Range(Actionable)

\* the first page is a pending task whose project matches an event given to
\* the annotator, and next_task has suggested another task
PendingExclusionWitness ==
    /\ pc = "done"
    /\ out.found
    /\ \E t \in Range(tasks.pending) :
        /\ t.id = 1
        /\ \E ev \in Range(upcoming_events) :
            Keywords(t.project) \cap Keywords(ev.summary) # {}

\* ------------------------------------------------------------------------
\* C4  Deadline co-presence: every task has the key deadline_days exactly
\* when it has the key deadline_event, after any number of invocations of
\* the annotator with any event lists.
DeadlineCoPresence ==
    \A t \in Range(tasks.actionable) \cup Range(tasks.pending) :
        ("deadline_days" \in t.keys) <=> ("deadline_event" \in t.keys)

DeadlineCoPresenceWitness ==
    /\ calls = MaxCalls
    /\ \E t \in Range(Actionable) : t.keys = {"deadline_days", "deadline_event"}
    /\ \E t \in Range(Actionable) : t.keys = {}

\* ------------------------------------------------------------------------
\* C5  Soonest match: a task that enters the annotator without deadline
\* fields leaves it with them exactly when its project has keywords and
\* shares one with an event that is not in the past; deadline_days is then
\* the least days-from-today of those events and deadline_event the summary
\* of one of them at that distance.  Tasks without a project stay bare.
DaysFromToday(ev) == ev.start.date - Today

Matching(t) ==
    {ev \in Range(upcoming_events) :
        /\ DaysFromToday(ev) >= 0
        /\ Keywords(IF Truthy(t.project) THEN t.project ELSE "")
             \cap Keywords(ev.summary) # {}}

SoonestMatch ==
    pc = "annotated" =>
        \A t \in Range(Actionable) :
            entered[PosIn(entered, t.id)].keys = {} =>
                /\ HasDeadline(t) <=> Matching(t) # {}
                /\ HasDeadline(t) =>
                    /\ \A ev \in Matching(t) : t.deadline_days <= DaysFromToday(ev)
                    /\ \E ev \in Matching(t) :
                        /\ DaysFromToday(ev) = t.deadline_days
                        /\ ev.summary = t.deadline_event
                /\ ~Truthy(t.project) => ~HasDeadline(t)

\* a task annotated from three events sharing its keyword: one in the past,
\* two ahead at different distances
SoonestMatchWitness ==
    /\ pc = "annotated"
    /\ \E t \in Range(Actionable) :
        /\ entered[PosIn(entered, t.id)].keys = {}
        /\ HasDeadline(t)
        /\ Cardinality(Matching(t)) >= 2
        /\ \E ev \in Matching(t) : DaysFromToday(ev) > t.deadline_days
        /\ \E ev \in Range(upcoming_events) :
            /\ DaysFromToday(ev) < 0
            /\ Keywords(t.project) \cap Keywords(ev.summary) # {}

\* ------------------------------------------------------------------------
\* C6  Absent values sort last within their tier: (i) a task without a
\* defined priority stands behind every task with one; (ii) of two tasks of
\* equal priority rank, the one without deadline_days stands behind the one
\* with it, whatever value the annotator attached; (iii) of two tasks of
\* equal priority and deadline rank, the one without a defined effort stands
\* behind the one with it.
UndefinedPriorityLast ==
    Ranked =>
        \A i, j \in 1..Len(Actionable) :
            (DefinedLevel(Actionable[i].priority)
             /\ ~DefinedLevel(Actionable[j].priority)) => i < j

SamePriorityRank(a, b) ==
    \/ a.priority = b.priority
    \/ ~DefinedLevel(a.priority) /\ ~DefinedLevel(b.priority)

AbsentDeadlineLast ==
    Ranked =>
        \A i, j \in 1..Len(Actionable) :
            (/\ SamePriorityRank(Actionable[i], Actionable[j])
             /\ HasDeadline(Actionable[i])
             /\ ~HasDeadline(Actionable[j])) => i < j

UndefinedEffortLast ==
    Ranked =>
        \A i, j \in 1..Len(Actionable) :
            (/\ SamePriorityRank(Actionable[i], Actionable[j])
             /\ DeadlineRank(Actionable[i]) = DeadlineRank(Actionable[j])
             /\ DefinedLevel(Actionable[i].effort)
             /\ ~DefinedLevel(Actionable[j].effort)) => i < j

Requirement(t) ==
    IF t.quick THEN 15
    ELSE IF t.effort = "high" THEN 90
    ELSE IF t.effort = "medium" THEN 45
    ELSE 1

Fitting ==
    {i \in 1..Len(Actionable) :
        Requirement(Actionable[i]) <= out.available_mins}

FirstFit ==
    (pc = "done" /\ out.available_mins > 0) =>
        IF Fitting = {}
        THEN /\ ~out.found
             /\ out.message = "No tasks fit the available time window."
        ELSE /\ out.found
             /\ out.suggestion =
                  Actionable[CHOOSE i \in Fitting : \A j \in Fitting : i <= j]

\* 40 minutes, a high-effort task that is not quick, then a quick one
FirstFitWitness ==
    /\ pc = "done"
    /\ out.available_mins = 40
    /\ Len(Actionable) = 2
    /\ ~Actionable[1].quick /\ Actionable[1].effort = "high"
    /\ Actionable[2].quick
    /\ out.found /\ out.suggestion = Actionable[2]

\* ------------------------------------------------------------------------
\* C8  No time: when the deadline is less than one full minute after now
\* (or not after it) next_task reports "no time available", examines no
\* task and suggests none; "no tasks fit" is a different report and is made
\* only when available minutes > 0.  available_mins is the difference in
\* whole minutes, truncated toward zero.
SecondsLeft == out.deadline - now_time

TruncatedMinutes(secs, mins) ==
    IF secs >= 0
    THEN mins >= 0 /\ mins * 60 <= secs /\ secs < (mins + 1) * 60
    ELSE mins <= 0 /\ mins * 60 >= secs /\ secs > (mins - 1) * 60

NoTimeOutcome ==
    pc = "done" =>
        /\ TruncatedMinutes(SecondsLeft, out.available_mins)
        /\ SecondsLeft < 60 =>
            /\ out.message = "No time available before your next commitment."
            /\ out.examined = << >>
            /\ ~out.found
        /\ out.message = "No tasks fit the available time window." =>
            /\ out.available_mins > 0
            /\ ~out.found

\* half a minute left and a task that needs one minute
NoTimeOutcomeWitness ==
    /\ pc = "done"
    /\ SecondsLeft > 0 /\ SecondsLeft < 60
    /\ \E t \in Range(Actionable) : ~t.quick /\ t.effort = "low"
    /\ out.message = "No time available before your next commitment."

\* ------------------------------------------------------------------------
\* C9  Session deadline: the deadline is the start of the earliest timed
\* event dated today that starts after now and not after the leave time,
\* and the leave time if there is none; all-day events, events of other
\* dates and events starting at or before now play no part.
Candidates ==
    {ev \in Range(events) :
        /\ ~ev.all_day
        /\ ev.start.date = Today
        /\ ev.start.time > now_time
        /\ ev.start.time <= leave_time}

SessionDeadline ==
    pc = "done" =>
        IF Candidates = {} THEN out.deadline = leave_time
        ELSE /\ \E ev \in Candidates : out.deadline = ev.start.time
             /\ \A ev \in Candidates : out.deadline <= ev.start.time

\* a meeting before the leave time, with an event starting exactly now and an
\* event of tomorrow at an earlier time of day
SessionDeadlineWitness ==
    /\ pc = "done"
    /\ Candidates # {}
    /\ out.deadline < leave_time
    /\ \E ev \in Range(events) :
        ~ev.all_day /\ ev.start.date = Today /\ ev.start.time = now_time
    /\ \E ev \in Range(events) :
        ~ev.all_day /\ ev.start.date # Today /\ ev.start.time > now_time
                    /\ ev.start.time < out.deadline

\* ------------------------------------------------------------------------
\* C10  What follows: when a task is suggested, the commitment named after
\* it is the one that bounds the session: the meeting whose start is the
\* deadline, or the end of the day when the deadline is the leave time (also
\* when today's next timed event starts after the leave time).
WhatFollows ==
    (pc = "done" /\ out.found) =>
        IF Candidates # {}
        THEN /\ out.after.kind = "meeting"
             /\ out.after.at = out.deadline
        ELSE /\ out.after.kind = "end of day"
             /\ out.after.at = leave_time

\* ------------------------------------------------------------------------
\* the lines of the text the reconciler was given and of the text it returned
InLines == SplitLines(plan_in)

OutLines == SplitLines(plan)

Reconciled == passes >= 1

\* sub stands in s at position k
At(s, k, sub) ==
    k + Len(sub) - 1 <= Len(s) /\ SubSeq(s, k, k + Len(sub) - 1) = sub

\* the first position of sub in s, or Len(s) + 1 if there is none
FirstAt(s, sub) ==
    LET places == {k \in 1..Len(s) : At(s, k, sub)}
    IN  IF places = {} THEN Len(s) + 1
        ELSE CHOOSE k \in places : \A m \in places : k <= m

\* the parts of a line: whether it is a scheduled-task line (the checkbox
\* marker first, and a separator); what stands before its first separator;
\* its description (what follows that separator, stripped); and the
\* description in lowercase, cut at "(priority:" and stripped
PartsOf(line) ==
    LET sep == FirstAt(line, EmDash)
        desc == IF sep > Len(line) THEN ""
                ELSE StrStrip(SubSeq(line, sep + 1, Len(line)))
        low == StrLower(desc)
    IN  [scheduled |->
            /\ sep <= Len(line)
            /\ \E k \in 1..Len(line) :
                /\ \A m \in 1..(k - 1) : SubSeq(line, m, m) = " "
                /\ At(line, k, "- [ ]"),
         before |-> SubSeq(line, 1, sep - 1),
         description |-> desc,
         cut |-> StrStrip(SubSeq(low, 1, FirstAt(low, "(priority:") - 1))]

PartsTable == [line \in PlanLines |-> PartsOf(line)]

Parts(line) ==
    IF line \in PlanLines THEN PartsTable[line] ELSE PartsOf(line)

Description(line) == Parts(line).description

Scheduled(line) == Parts(line).scheduled

AlreadyTagged(line) ==
    Scheduled(line) /\ At(Description(line), 1, "[")

\* ------------------------------------------------------------------------
\* C11  Tag idempotence: the reconciler applied to its own output, with the
\* same lookup, returns that output unchanged, for every plan text and every
\* lookup; no line is given a second tag.
TagIdempotence ==
    passes >= 2 => plan = plan_in

\* ------------------------------------------------------------------------
\* C12  Reconciler frame: a task line whose description starts with a
\* bracketed tag is emitted unchanged, a line that is not a scheduled-task
\* line is emitted unchanged, and the output has the lines of the input in
\* number and order.
ReconcilerFrame ==
    passes = 1 =>
        LET given == InLines
            emitted == OutLines
        IN  /\ Len(emitted) = Len(given)
            /\ \A i \in 1..Len(given) :
                (AlreadyTagged(given[i]) \/ ~Scheduled(given[i]))
                    => emitted[i] = given[i]

\* ------------------------------------------------------------------------
\* every task of the collection, actionable first
AllTasks == tasks.actionable \o tasks.pending

HasProject(t) == t.project # None /\ t.project # ""

LookupKeys == {tag_lookup[k].key : k \in 1..Len(tag_lookup)}

\* the line's description is the task's text, alone or followed by priority
\* metadata
DescribedBy(line, t) ==
    /\ Scheduled(line)
    /\ \/ Description(line) = t.text
       \/ At(Description(line), 1, t.text \o " (priority:")

\* one of the two texts holds the other
Overlap(a, b) == StrIn(a, b) \/ StrIn(b, a)

\* C13 as stated: a task without a project has no entry in the lookup, and
\* a plan line whose description is its text, with or without priority
\* metadata, is never modified, whatever other tasks the collection holds.
ProjectLessNeverRewritten ==
    Reconciled =>
        LET given == InLines
            emitted == OutLines
        IN  \A n \in 1..Len(AllTasks) :
                ~HasProject(AllTasks[n]) =>
                    /\ StrLower(AllTasks[n].text) \notin LookupKeys
                    /\ \A i \in 1..Len(emitted) :
                        DescribedBy(given[i], AllTasks[n])
                            => emitted[i] = given[i]

\* C13  Project-less tasks: a task without a project adds no entry to the
\* lookup (every key is the lowercased text of a task that has a project),
\* and a plan line whose description is its text, with or without priority
\* metadata, is not modified when no key of the lookup holds its lowercased
\* text or is held by it.
ProjectLessNoEntry ==
    Reconciled =>
        /\ \A key \in LookupKeys :
            \E n \in 1..Len(AllTasks) :
                HasProject(AllTasks[n]) /\ StrLower(AllTasks[n].text) = key
        /\ LET given == InLines
               emitted == OutLines
           IN  \A n \in 1..Len(AllTasks) :
                   ~HasProject(AllTasks[n]) =>
                       \A i \in 1..Len(emitted) :
                           (/\ DescribedBy(given[i], AllTasks[n])
                            /\ \A key \in LookupKeys :
                                 ~Overlap(key, StrLower(AllTasks[n].text)))
                               => emitted[i] = given[i]

\* a task without a project next to one with a project, and a line of the
\* plan that carries the first one's text with priority metadata
ProjectLessNoEntryWitness ==
    /\ passes = 1
    /\ tag_lookup # << >>
    /\ \E n \in 1..Len(AllTasks), i \in 1..Len(OutLines) :
        /\ AllTasks[n].project = None
        /\ DescribedBy(InLines[i], AllTasks[n])
        /\ Description(InLines[i]) # AllTasks[n].text
        /\ \A key \in LookupKeys : ~Overlap(key, StrLower(AllTasks[n].text))
        /\ OutLines[i] = InLines[i]

\* ------------------------------------------------------------------------
\* the entries of the lookup that match the line: the key holds, or is held
\* by, the lowercased description cut at "(priority:"
MatchingEntries(line) ==
    {k \in 1..Len(tag_lookup) : Overlap(tag_lookup[k].key, Parts(line).cut)}

Untagged(line) ==
    Scheduled(line) /\ ~At(Description(line), 1, "[")

\* what stands before the first separator of the line
BeforeSeparator(line) == Parts(line).before

\* C14  Tag re-insertion: a task line whose description does not start with
\* "[" and that some entry of the lookup matches is emitted with exactly one
\* tag, the value of the first matching entry in insertion order, placed
\* after the separator and before the description; what stands before the
\* separator and the description with its metadata are kept.
TagReinsertion ==
    Reconciled =>
        LET given == InLines
            emitted == OutLines
        IN  \A i \in 1..Len(emitted) :
                LET line == given[i]
                    matching == MatchingEntries(line)
                    first == CHOOSE k \in matching : \A m \in matching : k <= m
                IN  (Untagged(line) /\ matching # {}) =>
                        emitted[i] =
                            BeforeSeparator(line) \o EmDash \o " "
                              \o tag_lookup[first].value \o " "
                              \o Description(line)

\* a line that two entries of different tags match is emitted with the tag
\* of the first
TagReinsertionWitness ==
    /\ passes = 1
    /\ \E i \in 1..Len(OutLines) :
        /\ Untagged(InLines[i])
        /\ \E k, m \in MatchingEntries(InLines[i]) :
            /\ k < m
            /\ tag_lookup[k].value # tag_lookup[m].value
            /\ StrIn(EmDash \o " " \o tag_lookup[k].value \o " ", OutLines[i])
        /\ OutLines[i] # InLines[i]

\* ------------------------------------------------------------------------
\* the tasks that have a project and the given lowercased text
Bearing(key) ==
    {n \in 1..Len(AllTasks) :
        HasProject(AllTasks[n]) /\ StrLower(AllTasks[n].text) = key}

ValueUnder(key) ==
    tag_lookup[CHOOSE k \in 1..Len(tag_lookup) : tag_lookup[k].key = key].value

LookupKeysExact ==
    /\ LookupKeys = {StrLower(AllTasks[n].text) :
                        n \in {m \in 1..Len(AllTasks) : HasProject(AllTasks[m])}}
    /\ \A k, m \in 1..Len(tag_lookup) :
        tag_lookup[k].key = tag_lookup[m].key => k = m

\* C15 as stated: the keys are the lowercased texts of the tasks that have
\* a project, and under the lowercased text of each such task stands "[",
\* its project, "]", also when two tasks share the lowercased text and
\* differ in project.
TagLookupContents ==
    Reconciled =>
        /\ LookupKeysExact
        /\ \A n \in 1..Len(AllTasks) :
            HasProject(AllTasks[n]) =>
                ValueUnder(StrLower(AllTasks[n].text))
                    = "[" \o AllTasks[n].project \o "]"

\* C15  Tag lookup contents: the keys are the lowercased texts of the
\* actionable and pending tasks that have a project, each once, and the
\* value under a key is "[", the project, "]" of the last task, actionable
\* before pending, that has this lowercased text and a project.
TagLookupLastWins ==
    Reconciled =>
        /\ LookupKeysExact
        /\ \A key \in LookupKeys :
            LET last == CHOOSE n \in Bearing(key) :
                            \A m \in Bearing(key) : m <= n
            IN  ValueUnder(key) = "[" \o AllTasks[last].project \o "]"

\* two tasks of different projects share the lowercased text
TagLookupLastWinsWitness ==
    /\ Reconciled
    /\ \E key \in LookupKeys :
        /\ \E n, m \in Bearing(key) :
            n < m /\ AllTasks[n].project # AllTasks[m].project
        /\ ValueUnder(key) = "[Eu]"

\* ------------------------------------------------------------------------
\* the phrase in lowercase with a space for every hyphen and underscore
Normalised ==
    LET low == StrLower(phrase)
    IN  [k \in 1..Len(low) |->
            IF SubSeq(low, k, k) \in {"-", "_"} THEN " " ELSE SubSeq(low, k, k)]

\* the whitespace-delimited tokens: the stretches without a space that a
\* space or an end of the phrase bounds on either side, as (first, last)
TokenSpans ==
    {span \in (1..Len(Normalised)) \X (1..Len(Normalised)) :
        /\ span[1] <= span[2]
        /\ \A k \in span[1]..span[2] : Normalised[k] # " "
        /\ span[1] = 1 \/ Normalised[span[1] - 1] = " "
        /\ span[2] = Len(Normalised) \/ Normalised[span[2] + 1] = " "}

TokenAt(span) == StrLower(SubSeq(phrase, span[1], span[2]))

\* C16  Keyword extraction: _keywords returns exactly the lowercase
\* whitespace-delimited tokens of the input, hyphens and underscores read
\* as spaces, that have three characters or more and are no stop words; the
\* empty string gives the empty set; and a text that differs only in letter
\* case or in "-" / "_" for a space between words gives the same set.
KeywordExtraction ==
    pc = "keywords" =>
        /\ kw_phrase =
             {TokenAt(span) : span \in
                 {sp \in TokenSpans :
                     sp[2] - sp[1] + 1 >= 3 /\ TokenAt(sp) \notin _STOP_WORDS}}
        /\ \A w \in kw_phrase : StrLower(w) = w
        /\ phrase = "" => kw_phrase = {}
        /\ kw_variant = kw_phrase

\* a phrase with a hyphen and an underscore, a stop word in capitals, a
\* word of three letters and a variant written differently
KeywordExtractionWitness ==
    /\ pc = "keywords"
    /\ \E j, k \in 1..Len(phrase) :
        SubSeq(phrase, j, j) = "-" /\ SubSeq(phrase, k, k) = "_"
    /\ \E k \in 1..Len(phrase) : At(phrase, k, "The")
    /\ StrLower(variant) # StrLower(phrase)
    /\ variant # StrLower(variant)
    /\ kw_phrase = {"web"}

\* ------------------------------------------------------------------------
\* the run is in week mode, every required variable is set and --start-date
\* is absent or a date
WeekRun ==
    /\ mode = "week"
    /\ environ = RequiredEnviron
    /\ start_date = None \/ StrpTime(start_date).ok

\* C17  Week-mode pipeline completion: in week mode, with the configuration
\* present and every collaborator succeeding, the run goes through task
\* fetch, deadline annotation, the fetch of the week's events, generation
\* and reconciliation to the written plan and does not stop with an error
\* before, with and without --start-date.
WeekModeCompletes ==
    WeekRun => pc \notin {"exit", "TypeError"}

====
